---------------------------- MODULE Spec2Model ----------------------------
(***************************************************************************)
(* gosqueak/apikit: the generic Retry helper, the cookie-token middleware  *)
(* and the response-writer / cookie helpers, as state machines.            *)
(*                                                                         *)
(* The sources hold three revisions of Retry and two of the token          *)
(* middleware; the revision a behaviour runs is fixed in the initial       *)
(* state (retryVer, mw, setterVer).                                        *)
(***************************************************************************)
EXTENDS Integers, Sequences, FiniteSets

VARIABLES
    \* ---- Retry ----
    retryVer,       \* which revision of Retry runs
    nTries,         \* argument nTries
    fn,             \* what reflect sees of argument fn (+ whether fnargs fit)
    T,              \* the type argument T: "int" (concrete) or "iface"
    pc,             \* position inside Retry
    try,            \* loop counter
    interval,       \* current backoff interval, in seconds
    returnedT,      \* local returnedT / v
    returnedError,  \* local returnedError / e
    events,         \* what Retry did to the outside: invocations and sleeps
    ret,            \* the pair Retry returned (when pc = "returned")
    \* ---- token middleware ----
    mw,             \* which revision of the middleware serves the request
    cookieName,     \* argument cookieName
    aud,            \* argument aud, as the set of tokens aud.IsValid accepts
    req,            \* the incoming request r: its cookies and its context
    apc,            \* "waiting" before the middleware ran, "served" after
    resp,           \* what was written to w
    nextCalls,      \* how many times next was invoked
    nextReq,        \* the request next was invoked with
    \* ---- response writer, CORS and cookie helpers ----
    withCors,       \* whether CorsMiddleware is in the chain
    setterVer,      \* which revision of SetHttpOnlyCookie the handler calls
    hpc,            \* position in the chain LogMiddleware(CorsMiddleware(h))
    hdr,            \* w.Header()
    sent,           \* what the underlying writer put on the wire
    lrw,            \* the loggingResponseWriter
    logged,         \* the status LogMiddleware printed (0: nothing yet)
    originCalls,    \* origins given to SetHttpOnlyCookie before the header went out
    nOps            \* number of calls the handler has made

retryVars == <<retryVer, nTries, fn, T, pc, try, interval, returnedT,
               returnedError, events, ret>>

authVars == <<mw, cookieName, aud, req, apc, resp, nextCalls, nextReq>>

httpVars == <<withCors, setterVer, hpc, hdr, sent, lrw, logged, originCalls, nOps>>

vars == <<retryVars, authVars, httpVars>>

-----------------------------------------------------------------------------
(* Bounds *)
MaxTries == 4

MaxOps == 3

(* time.Second, the unit intervals are counted in *)
Second == 1

-----------------------------------------------------------------------------
(* Go values as (dynamic type, payload) pairs; NilV is the nil interface.  *)
NilV == [t |-> "nil", v |-> 0]
IntVals == {[t |-> "int", v |-> 0], [t |-> "int", v |-> 7]}
StrVals == {[t |-> "string", v |-> 1]}
ErrVals == {[t |-> "error", v |-> 1], [t |-> "error", v |-> 2]}

RetryVersions == {"apikit_int", "apikit_uint", "part_000"}

(* What fn can look like to reflect: not a value at all (untyped nil), a  *)
(* non-function, or a function with some output list.                     *)
FnShapes ==
    {[kind |-> k, numOut |-> 0, out0 |-> "int", out1 |-> "error", argsOK |-> TRUE]
        : k \in {"Invalid", "Int"}}
    \cup [kind : {"Func"}, numOut : {1, 2, 3}, out0 : {"int", "string", "iface"},
          out1 : {"error", "string"}, argsOK : BOOLEAN]

(* The values a function whose first output has static type ty can yield. *)
Results(ty) ==
    CASE ty = "int" -> IntVals
      [] ty = "string" -> StrVals
      [] OTHER -> {NilV} \cup IntVals \cup StrVals

(* var returnedT T *)
ZeroT == IF T = "int" THEN [t |-> "int", v |-> 0] ELSE NilV

(* x.(T): succeeds iff x is non-nil and its dynamic type is (implements) T *)
AssertT(x) == IF T = "int" THEN x.t = "int" ELSE x.t # "nil"

(* x.(error) *)
AssertError(x) == x.t = "error"

(* the closure paramsAreValid: despite its name it is TRUE when fn does NOT *)
(* have the shape, and guards panic("fn must be a function that returns    *)
(* (any, error)")                                                         *)
paramsAreValidNoCount ==
    \/ fn.kind # "Func"
    \/ fn.out1 # "error"
paramsAreValid ==
    \/ fn.kind # "Func"
    \/ fn.numOut # 2
    \/ fn.out1 # "error"

(* if try > 0 *)
ShouldSleepAlways == TRUE
ShouldSleep == try > 0

(* interval *= 2 *)
NextIntervalUnchanged(i) == i
NextInterval(i) == i * 2

CallEvent(val, err) == [kind |-> "call", val |-> val, err |-> err, d |-> 0]
SleepEvent(d) == [kind |-> "sleep", val |-> NilV, err |-> NilV, d |-> d]
NoRet == [val |-> NilV, err |-> NilV]

Panic ==
    /\ pc' = "panicked"
    /\ UNCHANGED <<try, interval, returnedT, returnedError, ret>>

-----------------------------------------------------------------------------
(* Requests, tokens and responses of the token middleware *)

CookieNames == {"accessToken", "apiToken"}
NoCookie == "<absent>"
CookieValues == {"jwtA", "jwtB", "garbled", "truncated"}

ZeroJwt == [sub |-> ""]
Tokens == {[sub |-> "A"], [sub |-> "B"]}

(* jwt.FromString: the token a cookie value encodes, or why it encodes none *)
FromString(str) ==
    CASE str = "jwtA" -> [token |-> [sub |-> "A"], err |-> "nil"]
      [] str = "jwtB" -> [token |-> [sub |-> "B"], err |-> "nil"]
      [] str = "garbled" -> [token |-> ZeroJwt, err |-> "ErrCannotParse"]
      [] OTHER -> [token |-> ZeroJwt, err |-> "ErrUnexpected"]

(* r.Cookie(name) *)
GetHttpCookie(r, name) ==
    IF r.cookies[name] = NoCookie
    THEN [value |-> "", err |-> "ErrNoCookie"]
    ELSE [value |-> r.cookies[name], err |-> "nil"]

GetTokenFromCookieAsEmpty(r, name) == FromString(GetHttpCookie(r, name).value)
GetTokenFromCookie(r, name) ==
    LET tokenCookie == GetHttpCookie(r, name)
    IN  IF tokenCookie.err # "nil"
        THEN [token |-> ZeroJwt, err |-> tokenCookie.err]
        ELSE FromString(tokenCookie.value)

(* aud.IsValid(token) *)
IsValid(a, token) == token \in a

NoResp == [status |-> 0, body |-> ""]

(* http.Error(w, msg, code) *)
HttpError(msg, code) == [status |-> code, body |-> msg]
ErrStatusUnauthorized == HttpError("Could not authorize", 401)
ErrInternal == HttpError("internal error", 500)
ErrBadRequest == HttpError("invalid request", 400)

(* the default message per status code of kit.Error *)
DefaultMessage(code) ==
    CASE code = 401 -> "unauthorized"
      [] code = 400 -> "bad request"
      [] code = 500 -> "internal server error"
      [] code = 405 -> "method not allowed"
      [] OTHER -> ""

(* kit.Error(w, msg, code) *)
KitError(msg, code) ==
    [status |-> code, body |-> IF msg = "" THEN DefaultMessage(code) ELSE msg]

(* r.WithContext(context.WithValue(r.Context(), key, val)) *)
WithValue(r, key, val) ==
    [r EXCEPT !.ctx = Append(r.ctx, [key |-> key, val |-> val])]

Reject(response) == [resp |-> response, forward |-> FALSE, req |-> [cookies |-> <<>>, ctx |-> <<>>]]
Forward(r) == [resp |-> NoResp, forward |-> TRUE, req |-> r]

(* the handler CheckToken(cookieName, aud, next) returns *)
CheckTokenNoAudience(name, a, r) ==
    LET got == GetTokenFromCookie(r, name)
    IN  IF got.err = "ErrNoCookie"
        THEN Reject(KitError("JWT cookie not present", 401))
        ELSE IF got.err = "ErrCannotParse"
        THEN Reject(KitError("could not parse JWT", 401))
        ELSE IF got.err # "nil"
        THEN Reject(KitError("", 500))
        ELSE Forward(WithValue(r, name, got.token))
CheckTokenServe(name, a, r) ==
    LET got == GetTokenFromCookie(r, name)
    IN  IF got.err = "ErrNoCookie"
        THEN Reject(KitError("JWT cookie not present", 401))
        ELSE IF got.err = "ErrCannotParse"
        THEN Reject(KitError("could not parse JWT", 401))
        ELSE IF got.err # "nil"
        THEN Reject(KitError("", 500))
        ELSE IF ~IsValid(a, got.token)
        THEN Reject(KitError("invalid JWT", 401))
        ELSE Forward(WithValue(r, name, got.token))

(* the handler CookieTokenMiddleware(cookieName, aud, next) returns *)
CookieTokenMiddlewareServe(name, a, r) ==
    LET got == GetTokenFromCookie(r, name)
    IN  IF got.err = "ErrNoCookie" \/ got.err = "ErrCannotParse"
        THEN Reject(ErrBadRequest)
        ELSE IF got.err # "nil"
        THEN Reject(ErrInternal)
        ELSE IF ~IsValid(a, got.token)
        THEN Reject(ErrStatusUnauthorized)
        ELSE Forward(r)

-----------------------------------------------------------------------------
(* Response headers and the writers *)

Codes == {200, 404, 500}
Origins == {"https://app.example.com", "https://admin.example.com"}

NoHdr == [acao |-> "", acac |-> "", cookies |-> <<>>]
NothingSent == [status |-> 0, hdr |-> NoHdr, body |-> FALSE]

(* newLoggingResponseWriter(w) *)
newLoggingResponseWriter == [statusCode |-> 200]

(* l.ResponseWriter.WriteHeader(code) on the wrapped net/http writer: the  *)
(* first status line goes out with the headers as they are then; a later   *)
(* call is superfluous and changes nothing on the wire.                    *)
UnderlyingWriteHeader(s, h, code) ==
    IF s.status = 0 THEN [s EXCEPT !.status = code, !.hdr = h] ELSE s

(* (l *loggingResponseWriter) WriteHeader(code): l.statusCode = code *)
RecordStatus(l, code) == [l EXCEPT !.statusCode = code]

(* http.SetCookie(w, &http.Cookie{...}): adds one Set-Cookie header *)
AddCookie(h, name, value, httpOnly, maxAge) ==
    [h EXCEPT !.cookies = Append(@, [name |-> name, value |-> value,
                                      httpOnly |-> httpOnly, maxAge |-> maxAge])]

(* SetHttpOnlyCookie(w, name, value, maxAge, origin) *)
SetHttpOnlyCookieKeepOrigin(h, name, value, maxAge, origin) ==
    AddCookie([h EXCEPT !.acac = "true"], name, value, TRUE, maxAge)
SetHttpOnlyCookie(h, name, value, maxAge, origin) ==
    AddCookie([h EXCEPT !.acao = origin, !.acac = "true"], name, value, TRUE, maxAge)

(* SetHttpOnlyCookie(w, name, value, maxAge), the revision without origin *)
SetHttpOnlyCookieNoOrigin(h, name, value, maxAge) ==
    AddCookie(h, name, value, TRUE, maxAge)

(* DeleteCookie(w, name) *)
DeleteCookie(h, name) == AddCookie(h, name, "", FALSE, -1)

-----------------------------------------------------------------------------
(* The values the parts that do not run keep *)

RetryIdle ==
    /\ retryVer = "apikit_int"
    /\ nTries = 0
    /\ fn = [kind |-> "Invalid", numOut |-> 0, out0 |-> "int", out1 |-> "error",
             argsOK |-> TRUE]
    /\ T = "int"
    /\ pc = "idle"
    /\ try = 0
    /\ interval = 0
    /\ returnedT = NilV
    /\ returnedError = NilV
    /\ events = <<>>
    /\ ret = NoRet

AuthIdle ==
    /\ mw = "CheckToken"
    /\ cookieName = "accessToken"
    /\ aud = {}
    /\ req = [cookies |-> [n \in CookieNames |-> NoCookie], ctx |-> <<>>]
    /\ apc = "idle"
    /\ resp = NoResp
    /\ nextCalls = 0
    /\ nextReq = [cookies |-> <<>>, ctx |-> <<>>]

HttpIdle ==
    /\ withCors = FALSE
    /\ setterVer = "origin"
    /\ hpc = "idle"
    /\ hdr = NoHdr
    /\ sent = NothingSent
    /\ lrw = [statusCode |-> 0]
    /\ logged = 0
    /\ originCalls = <<>>
    /\ nOps = 0

-----------------------------------------------------------------------------
(* Retry *)
RetryInit ==
    /\ AuthIdle
    /\ HttpIdle
    /\ retryVer \in RetryVersions
    /\ nTries \in (IF retryVer = "apikit_uint" THEN 0 ELSE -1)..MaxTries
    /\ fn \in FnShapes
    /\ T \in {"int", "iface"}
    /\ pc = "start"
    /\ try = 0
    /\ interval = 0
    /\ returnedT = NilV
    /\ returnedError = NilV
    /\ events = <<>>
    /\ ret = NoRet

(* reflect.ValueOf(fn).Type(), the shape check, and the locals' setup *)
RetryEnter ==
    /\ pc = "start"
    /\ IF fn.kind = "Invalid" \/ paramsAreValid
       THEN Panic
       ELSE /\ pc' = "loop"
            /\ interval' = Second
            /\ returnedT' = ZeroT
            /\ returnedError' = NilV
            /\ try' = 0
            /\ ret' = ret
    /\ UNCHANGED <<retryVer, nTries, fn, T, events, authVars, httpVars>>

(* if try > 0 { Printf; time.Sleep(interval); interval *= 2 } *)
RetryBackoff ==
    /\ pc = "loop"
    /\ try < nTries
    /\ ShouldSleep
    /\ IF retryVer = "apikit_uint" /\ ~AssertError(returnedError)
       THEN Panic /\ events' = events
       ELSE /\ events' = Append(events, SleepEvent(interval))
            /\ interval' = NextInterval(interval)
            /\ pc' = "call"
            /\ UNCHANGED <<try, returnedT, returnedError, ret>>
    /\ UNCHANGED <<retryVer, nTries, fn, T, authVars, httpVars>>

(* results := fnValue.Call(values), the two assertions, and the branch *)
RetryCall ==
    /\ \/ pc = "call"
       \/ pc = "loop" /\ try < nTries /\ ~ShouldSleep
    /\ IF ~fn.argsOK
       THEN Panic /\ events' = events
       ELSE \E val \in Results(fn.out0), err \in ErrVals \cup {NilV} :
              /\ events' = Append(events, CallEvent(val, err))
              /\ IF \/ ~AssertT(val)
                    \/ retryVer = "part_000" /\ ~AssertError(err)
                 THEN Panic
                 ELSE /\ returnedT' = val
                      /\ returnedError' = err
                      /\ interval' = interval
                      /\ IF err # NilV
                         THEN /\ try' = try + 1
                              /\ pc' = "loop"
                              /\ ret' = ret
                         ELSE /\ try' = try
                              /\ pc' = "returned"
                              /\ ret' = [val |-> val, err |-> NilV]
    /\ UNCHANGED <<retryVer, nTries, fn, T, authVars, httpVars>>

(* the return after the loop *)
RetryExhausted ==
    /\ pc = "loop"
    /\ try >= nTries
    /\ IF retryVer # "part_000" /\ ~AssertError(returnedError)
       THEN Panic
       ELSE /\ pc' = "returned"
            /\ ret' = [val |-> returnedT, err |-> returnedError]
            /\ UNCHANGED <<try, interval, returnedT, returnedError>>
    /\ UNCHANGED <<retryVer, nTries, fn, T, events, authVars, httpVars>>

Retry == RetryEnter \/ RetryBackoff \/ RetryCall \/ RetryExhausted

SpecRetry == RetryInit /\ [][Retry]_vars

-----------------------------------------------------------------------------
(* The token middleware: one request, served by one of the two revisions *)

Requests ==
    [cookies : [CookieNames -> CookieValues \cup {NoCookie}],
     ctx : {<<>>, <<[key |-> "session", val |-> [sub |-> "S"]]>>}]

AuthInit ==
    /\ RetryIdle
    /\ HttpIdle
    /\ mw \in {"CheckToken", "CookieTokenMiddleware"}
    /\ cookieName \in CookieNames
    /\ aud \in SUBSET Tokens
    /\ req \in Requests
    /\ apc = "waiting"
    /\ resp = NoResp
    /\ nextCalls = 0
    /\ nextReq = [cookies |-> <<>>, ctx |-> <<>>]

Serve(outcome) ==
    /\ apc' = "served"
    /\ resp' = outcome.resp
    /\ nextCalls' = IF outcome.forward THEN nextCalls + 1 ELSE nextCalls
    /\ nextReq' = IF outcome.forward THEN outcome.req ELSE nextReq
    /\ UNCHANGED <<mw, cookieName, aud, req, retryVars, httpVars>>

CheckToken ==
    /\ apc = "waiting"
    /\ mw = "CheckToken"
    /\ Serve(CheckTokenServe(cookieName, aud, req))

CookieTokenMiddleware ==
    /\ apc = "waiting"
    /\ mw = "CookieTokenMiddleware"
    /\ Serve(CookieTokenMiddlewareServe(cookieName, aud, req))

AuthNext == CheckToken \/ CookieTokenMiddleware

SpecAuth == AuthInit /\ [][AuthNext]_vars

-----------------------------------------------------------------------------
(* One response through LogMiddleware(CorsMiddleware(handler)); the handler *)
(* makes up to MaxOps calls on the writer it was given.                    *)

HttpInit ==
    /\ RetryIdle
    /\ AuthIdle
    /\ withCors \in BOOLEAN
    /\ setterVer \in {"origin", "plain"}
    /\ hpc = "log"
    /\ hdr = NoHdr
    /\ sent = NothingSent
    /\ lrw = [statusCode |-> 0]
    /\ logged = 0
    /\ originCalls = <<>>
    /\ nOps = 0

(* LogMiddleware up to next(lrw, r) *)
LogMiddleware ==
    /\ hpc = "log"
    /\ lrw' = newLoggingResponseWriter
    /\ hpc' = IF withCors THEN "cors" ELSE "handler"
    /\ UNCHANGED <<withCors, setterVer, hdr, sent, logged, originCalls, nOps,
                   retryVars, authVars>>

(* CorsMiddleware up to next(w, r) *)
CorsMiddleware ==
    /\ hpc = "cors"
    /\ hdr' = [hdr EXCEPT !.acao = "*"]
    /\ hpc' = "handler"
    /\ UNCHANGED <<withCors, setterVer, sent, lrw, logged, originCalls, nOps,
                   retryVars, authVars>>

(* the handler calls w.WriteHeader(code) *)
WriteHeader ==
    /\ hpc = "handler"
    /\ nOps < MaxOps
    /\ \E code \in Codes :
          /\ lrw' = RecordStatus(lrw, code)
          /\ sent' = UnderlyingWriteHeader(sent, hdr, code)
    /\ nOps' = nOps + 1
    /\ UNCHANGED <<withCors, setterVer, hpc, hdr, logged, originCalls,
                   retryVars, authVars>>

(* the handler calls w.Write(body): the promoted method of the wrapped     *)
(* writer, which sends status 200 first if no status went out yet          *)
Write ==
    /\ hpc = "handler"
    /\ nOps < MaxOps
    /\ sent' = [UnderlyingWriteHeader(sent, hdr, 200) EXCEPT !.body = TRUE]
    /\ nOps' = nOps + 1
    /\ UNCHANGED <<withCors, setterVer, hpc, hdr, lrw, logged, originCalls,
                   retryVars, authVars>>

(* the handler calls SetHttpOnlyCookie *)
SetCookie ==
    /\ hpc = "handler"
    /\ nOps < MaxOps
    /\ \E name \in CookieNames :
          IF setterVer = "origin"
          THEN \E origin \in Origins :
                  /\ hdr' = SetHttpOnlyCookie(hdr, name, "tok", 3600, origin)
                  /\ originCalls' = IF sent.status = 0
                                    THEN Append(originCalls, origin)
                                    ELSE originCalls
          ELSE /\ hdr' = SetHttpOnlyCookieNoOrigin(hdr, name, "tok", 3600)
               /\ originCalls' = originCalls
    /\ nOps' = nOps + 1
    /\ UNCHANGED <<withCors, setterVer, hpc, sent, lrw, logged, retryVars, authVars>>

(* the handler calls DeleteCookie *)
RemoveCookie ==
    /\ hpc = "handler"
    /\ nOps < MaxOps
    /\ \E name \in CookieNames : hdr' = DeleteCookie(hdr, name)
    /\ nOps' = nOps + 1
    /\ UNCHANGED <<withCors, setterVer, hpc, sent, lrw, logged, originCalls,
                   retryVars, authVars>>

(* the handler returns: LogMiddleware prints lrw.statusCode, and the       *)
(* server sends status 200 if the handler sent none                        *)
LogMiddlewareReturn ==
    /\ hpc = "handler"
    /\ logged' = lrw.statusCode
    /\ sent' = UnderlyingWriteHeader(sent, hdr, 200)
    /\ hpc' = "done"
    /\ UNCHANGED <<withCors, setterVer, hdr, lrw, originCalls, nOps,
                   retryVars, authVars>>

HttpNext ==
    \/ LogMiddleware
    \/ CorsMiddleware
    \/ WriteHeader
    \/ Write
    \/ SetCookie
    \/ RemoveCookie
    \/ LogMiddlewareReturn

SpecHttp == HttpInit /\ [][HttpNext]_vars

-----------------------------------------------------------------------------
(* Properties of Retry *)

Done == pc \in {"returned", "panicked"}

IsCall(e) == e.kind = "call"
IsSleep(e) == e.kind = "sleep"
Calls == SelectSeq(events, IsCall)
Sleeps == SelectSeq(events, IsSleep)
Failed(e) == e.err # NilV

RECURSIVE Pow2(_)
Pow2(n) == IF n <= 0 THEN 1 ELSE 2 * Pow2(n - 1)

RECURSIVE SumD(_)
SumD(s) == IF s = <<>> THEN 0 ELSE Head(s).d + SumD(Tail(s))

(* fn is a function returning (T, error) that accepts fnargs *)
WellShaped ==
    /\ fn.kind = "Func"
    /\ fn.numOut = 2
    /\ fn.out1 = "error"
    /\ fn.out0 = T
    /\ fn.argsOK

(* C1: for nTries >= 1 and a well-shaped operation whose invocation k+1 is *)
(* the first to return a nil error, Retry returns that invocation's result *)
(* with a nil error, after exactly k+1 invocations.                        *)
C1_FirstSuccessIsReturned ==
    (/\ WellShaped
     /\ nTries >= 1
     /\ Calls # <<>>
     /\ ~Failed(Calls[Len(Calls)]))
    => /\ pc = "returned"
       /\ ret = [val |-> Calls[Len(Calls)].val, err |-> NilV]
       /\ \A j \in 1..(Len(Calls) - 1) : Failed(Calls[j])

(* C2: for nTries >= 1 and a well-shaped operation that fails on every     *)
(* invocation, Retry invokes it exactly nTries times and returns the last  *)
(* invocation's result and error.                                          *)
C2_AllFailReturnsLast ==
    (/\ WellShaped
     /\ nTries >= 1
     /\ Done
     /\ \A j \in 1..Len(Calls) : Failed(Calls[j]))
    => /\ pc = "returned"
       /\ Len(Calls) = nTries
       /\ ret = [val |-> Calls[nTries].val, err |-> Calls[nTries].err]

(* C3: the sleep right before attempt i (zero-indexed, i >= 1) lasts       *)
(* Second * 2^(i-1): the sleeps are 1s, 2s, 4s, ...; with nTries = 3 and   *)
(* two failures followed by a success the sleeps add up to 3s over exactly *)
(* 3 invocations.                                                          *)
C3_BackoffDoubles ==
    /\ \A j \in 1..Len(events) :
          IsSleep(events[j]) =>
             LET i == Len(SelectSeq(SubSeq(events, 1, j), IsCall))
             IN  /\ i >= 1
                 /\ events[j].d = Second * Pow2(i - 1)
    /\ (/\ nTries = 3
        /\ pc = "returned"
        /\ Len(Calls) = 3
        /\ ret.err = NilV)
       => /\ SumD(Sleeps) = 3 * Second
          /\ Failed(Calls[1]) /\ Failed(Calls[2])

C3_Witness ==
    /\ nTries = 3
    /\ pc = "returned"
    /\ ret.err = NilV
    /\ Len(Calls) = 3
    /\ Len(Sleeps) = 2

(* C4: with nTries = 0 and a well-shaped operation Retry returns the zero  *)
(* value of T and a nil error, without invoking the operation and without  *)
(* sleeping.                                                               *)
C4_ZeroTriesReturnsZero ==
    (WellShaped /\ nTries = 0 /\ Done)
    => /\ pc = "returned"
       /\ ret = [val |-> ZeroT, err |-> NilV]
       /\ events = <<>>

(* C5 as stated: a callable without the (T, error) output shape (not a     *)
(* function, not two outputs, second output not error, or first output not *)
(* of type T) makes Retry panic for every nTries; it never returns.        *)
OutputShapeOK ==
    /\ fn.kind = "Func"
    /\ fn.numOut = 2
    /\ fn.out1 = "error"
    /\ fn.out0 = T

C10_SleepsOnlyBetweenAttempts ==
    /\ \A j \in 1..Len(events) :
          /\ (j % 2 = 1) => IsCall(events[j])
          /\ (j % 2 = 0) => (IsSleep(events[j]) /\ Failed(events[j - 1]))
    /\ Done => (events = <<>> \/ IsCall(events[Len(events)]))
    /\ (Done /\ Calls # <<>>) => Len(Sleeps) = Len(Calls) - 1
    /\ nTries = 1 => Sleeps = <<>>

C10_Witness ==
    /\ pc = "returned"
    /\ ret.err # NilV
    /\ Len(Calls) = nTries
    /\ Len(Sleeps) = 2

-----------------------------------------------------------------------------
(* Properties of the token middleware *)

CookieAbsent == req.cookies[cookieName] = NoCookie
CookieUnparsable ==
    ~CookieAbsent /\ FromString(req.cookies[cookieName]).err = "ErrCannotParse"
TokenOK ==
    /\ GetTokenFromCookie(req, cookieName).err = "nil"
    /\ IsValid(aud, GetTokenFromCookie(req, cookieName).token)
Served == apc = "served"

C7_ForwardIffValidWithToken ==
    Served =>
       /\ nextCalls = (IF TokenOK THEN 1 ELSE 0)
       /\ TokenOK => /\ resp = NoResp
                     /\ nextReq = WithValue(req, cookieName,
                                            GetTokenFromCookie(req, cookieName).token)
       /\ ~TokenOK => resp # NoResp
       /\ (GetTokenFromCookie(req, cookieName).err = "nil" /\ ~TokenOK)
             => (resp.status = 401 /\ resp.body # "")

(* C7, amended: as stated for CheckToken; CookieTokenMiddleware passes the *)
(* request on unchanged (no token attached) and answers an invalid token   *)
(* with 401 "Could not authorize".                                         *)
C7_ForwardIffValid ==
    Served =>
       /\ nextCalls = (IF TokenOK THEN 1 ELSE 0)
       /\ TokenOK =>
             /\ resp = NoResp
             /\ nextReq.cookies = req.cookies
             /\ nextReq.ctx =
                   IF mw = "CheckToken"
                   THEN Append(req.ctx, [key |-> cookieName,
                                         val |-> FromString(req.cookies[cookieName]).token])
                   ELSE req.ctx
       /\ ~TokenOK => resp # NoResp
       /\ (GetTokenFromCookie(req, cookieName).err = "nil" /\ ~TokenOK)
             => resp = [status |-> 401,
                        body |-> IF mw = "CheckToken" THEN "invalid JWT"
                                 ELSE "Could not authorize"]

C7_Witness ==
    /\ Served
    /\ mw = "CheckToken"
    /\ nextCalls = 1
    /\ Len(nextReq.ctx) = 2

-----------------------------------------------------------------------------
(* Properties of the response writer and the cookie helpers *)

(* C8: the status the decorator recorded and LogMiddleware printed is the  *)
(* status that went out on the underlying writer, 200 if the handler never *)
(* called WriteHeader.                                                     *)
C8_LoggedStatusIsSentStatus ==
    hpc = "done" => (logged = sent.status /\ lrw.statusCode = sent.status)

RECURSIVE Range(_)
Range(seq) == IF seq = <<>> THEN {} ELSE {Head(seq)} \cup Range(Tail(seq))

(* C9 as stated: a response that sets a cookie through the cross-origin    *)
(* setter with origin X goes out with Access-Control-Allow-Origin X and    *)
(* Access-Control-Allow-Credentials "true", never "*".                     *)
C9_SentOriginIsEveryCallsOrigin ==
    hpc = "done" =>
       \A X \in Range(originCalls) :
          /\ sent.hdr.acao = X
          /\ sent.hdr.acac = "true"
          /\ sent.hdr.acao # "*"

(* C9, amended: a response whose headers carry cookies set through the     *)
(* cross-origin setter goes out with Access-Control-Allow-Origin equal to  *)
(* the origin given to the last such call made before the headers were     *)
(* sent (X itself when every call gave X), with                            *)
(* Access-Control-Allow-Credentials "true", and never with "*", also       *)
(* behind CorsMiddleware. The revision of SetHttpOnlyCookie that takes no  *)
(* origin sets neither header: behind CorsMiddleware its response goes out *)
(* with "*" and without Access-Control-Allow-Credentials.                  *)
C9_SentOriginIsLastCallsOrigin ==
    /\ (sent.status # 0 /\ originCalls # <<>>) =>
          /\ sent.hdr.acao = originCalls[Len(originCalls)]
          /\ sent.hdr.acac = "true"
          /\ sent.hdr.acao # "*"
          /\ Len(sent.hdr.cookies) >= Len(originCalls)
    /\ (sent.status # 0 /\ setterVer = "plain") =>
          /\ sent.hdr.acao = (IF withCors THEN "*" ELSE "")
          /\ sent.hdr.acac = ""

C9_Witness ==
    /\ hpc = "done"
    /\ withCors
    /\ Len(originCalls) = 2
    /\ sent.hdr.acao = "https://app.example.com"

=============================================================================
